---- MODULE Spec2Model ----
(***************************************************************************)
(* Map generation, room-based visibility, doors and movement of the        *)
(* 2126-roguelikedev game: map.ts (createGameMap, isVisible, setExplored,  *)
(* edgeBetween, populateRoom), simulation.ts (canMoveTo, playerMoveBy,     *)
(* playerGoDownStairs, enemiesMove, attack, takeDamage), entity.ts         *)
(* (Entities) and util.ts (clamp, evaluateStepFunction).                   *)
(*                                                                         *)
(* A tile is the pair <<x, y>> (the key of tileToKey), an edge the triple  *)
(* <<x, y, s>> (the key of edgeToKey).  createGameMap runs as a sequence   *)
(* of steps recorded in pc; no player action is enabled before it ends.    *)
(* Every PRNG draw is a nondeterministic choice.  The draws are            *)
(* independent, so seed i is drawn in the step that first reads it.        *)
(***************************************************************************)
EXTENDS Integers, Sequences, FiniteSets, TLC

\* ---------------------------------------------------------------- bounds
\* map.ts:11-13 sets WIDTH = 40, HEIGHT = 30, NUM_ROOMS = 100; the model
\* runs the same code on a smaller grid with fewer rooms.
WIDTH == 2
HEIGHT == 2
NUM_ROOMS == 3
\* randint(2, 8) of the room footprint is drawn from 2..MaxRoomDim
MaxRoomDim == 2
\* dungeon levels 1..MaxLevel are generated
MaxLevel == 2
\* number of monster turns (enemiesMove calls) explored in one level
MaxTurns == 2
\* populateRoom draws no more monsters (items) than leave at most
\* MaxMonsters monsters (MaxItems items) on one level
MaxMonsters == 1
MaxItems == 0
\* the room loop alone is also run on a map of CorridorWidth by
\* CorridorHeight tiles, wide enough for a {w: 10, h: 1} room, for the
\* first CorridorRooms rooms
CorridorWidth == 12
CorridorHeight == 2
CorridorRooms == 2
\* the points a direct call of a map function is given have coordinates
\* in -PointMargin..WIDTH + PointMargin - 1 and -PointMargin..HEIGHT + PointMargin - 1
PointMargin == 1
\* evaluateStepFunction is called with tables of up to MaxTableLen entries,
\* thresholds 1..MaxThreshold, values 1..MaxStepValue, and x in
\* 0..MaxThreshold + 1
MaxTableLen == 2
MaxThreshold == 3
MaxStepValue == 2

\* after a monster is confused the player waits for up to WaitTurns turns
WaitTurns == 11

\* ------------------------------------------------------------- constants
Null == -1
NoEdge == <<-1, -1, "-">>
NOWHERE == <<"nowhere">>
PlayerId == 1
\* what a call that throws leaves in ret, and what a call without a return
\* value leaves
Thrown == "Invariant violated"
Undefined == "undefined"

\* pc             the position in createGameMap ("grow", "doors", "populate"),
\*                or "play" when the game waits for a key
\* caller         who called goToNextLevel: "load" (map.ts:305) or "stairs"
\* dungeonLevel   GameMap.dungeonLevel
\* tiles          GameMap.tiles: tile -> room id
\* walls          GameMap.walls: the set of wall edges
\* doors          GameMap.doors: door edge -> [tile1, tile2, open]
\* rooms          GameMap.rooms: room id -> [center, tiles, adjacent, explored]
\* doorCandidates the Map of map.ts:244
\* idx            the index of the loop createGameMap is in
\* entities       the entity store: id -> entity
\* nextId         Entities.id, the last id given out
\* enemyTurns     the number of enemiesMove calls made on this level
\* call           the last direct call of an exported function: its name and
\*                arguments, << >> before the first
\* ret            what that call returned
VARIABLES pc, caller, dungeonLevel, tiles, walls, doors, rooms,
          doorCandidates, idx, entities, nextId, enemyTurns, call, ret

vars == <<pc, caller, dungeonLevel, tiles, walls, doors, rooms,
          doorCandidates, idx, entities, nextId, enemyTurns, call, ret>>

\* ------------------------------------------------------------ util.ts
Abs(n) == IF n < 0 THEN -n ELSE n
Min(a, b) == IF a < b THEN a ELSE b
Max(a, b) == IF a > b THEN a ELSE b

\* the upper limit is not applied
clamp_NoUpper(x, lo, hi) == IF x < lo THEN lo ELSE x

\* util.ts:10-12
clamp(x, lo, hi) == IF x < lo THEN lo ELSE IF x > hi THEN hi ELSE x

\* the first candidate is returned instead of the last
evaluateStepFunction_First(table, x) ==
    LET candidates == SelectSeq(table, LAMBDA xy : x >= xy[1])
    IN  IF Len(candidates) > 0 THEN candidates[1][2] ELSE 0

\* util.ts:22-27; table is a sequence of <<threshold, value>>: the value of
\* the last entry whose threshold is <= x, or 0
evaluateStepFunction(table, x) ==
    LET candidates == SelectSeq(table, LAMBDA xy : x >= xy[1])
    IN  IF Len(candidates) > 0 THEN candidates[Len(candidates)][2] ELSE 0

\* ------------------------------------------------------------ map.ts
\* the second test answers with the edge of b, as the first does
edgeBetween_EdgeOfB(a, b) ==
    IF a[1] = b[1] /\ a[2] = b[2] - 1 THEN <<b[1], b[2], "N">>
    ELSE IF a[1] = b[1] /\ a[2] = b[2] + 1 THEN <<b[1], b[2], "N">>
    ELSE IF a[1] = b[1] - 1 /\ a[2] = b[2] THEN <<b[1], b[2], "W">>
    ELSE IF a[1] = b[1] + 1 /\ a[2] = b[2] THEN <<a[1], a[2], "W">>
    ELSE NoEdge

\* map.ts:98-104; NoEdge is undefined
edgeBetween(a, b) ==
    IF a[1] = b[1] /\ a[2] = b[2] - 1 THEN <<b[1], b[2], "N">>
    ELSE IF a[1] = b[1] /\ a[2] = b[2] + 1 THEN <<a[1], a[2], "N">>
    ELSE IF a[1] = b[1] - 1 /\ a[2] = b[2] THEN <<b[1], b[2], "W">>
    ELSE IF a[1] = b[1] + 1 /\ a[2] = b[2] THEN <<a[1], a[2], "W">>
    ELSE NoEdge

\* map.ts:88-96
edgesAroundTile(p) ==
    { <<p[1], p[2], "N">>, <<p[1], p[2], "W">>,
      <<p[1], p[2] + 1, "N">>, <<p[1] + 1, p[2], "W">> }

\* the two tiles an edge separates
edgeJoins(e) ==
    IF e[3] = "W" THEN <<(<<e[1] - 1, e[2]>>), (<<e[1], e[2]>>)>>
    ELSE <<(<<e[1], e[2] - 1>>), (<<e[1], e[2]>>)>>

TilesHas(t, p) == p \in DOMAIN t

\* roomAt: gameMap.tiles.get(x, y)?.roomId ?? null
roomAt(t, p) == IF p \in DOMAIN t THEN t[p] ELSE Null

DIRS_8 == << <<0, -1>>, <<1, 0>>, <<0, 1>>, <<-1, 0>>,
             <<-1, -1>>, <<1, -1>>, <<1, 1>>, <<-1, 1>> >>

\* the seed points randint(0, WIDTH), randint(0, HEIGHT): getUniformInt
\* includes both ends
SeedPoints == (0..WIDTH) \X (0..HEIGHT)

\* the footprints the three-way draw of createGameMap can produce
RoomSizes(roomId) ==
    { <<10, 1>>, <<1, 10>> } \cup
    (IF 10 * roomId < 9 * NUM_ROOMS
     THEN (2..MaxRoomDim) \X (2..MaxRoomDim)
     ELSE { <<15, 15>> })

\* the test that lets a room claim a tile: the tile has no room yet
Unclaimed(t, p) == ~ TilesHas(t, p)

\* one pass of the for loop over DIRS_8 for the tile current, from
\* direction k on; st = [t |-> tiles, q |-> queue]
RECURSIVE VisitNeighbors(_, _, _, _, _)
VisitNeighbors(st, roomId, current, box, k) ==
    IF k > Len(DIRS_8) THEN st
    ELSE LET neighbor == <<current[1] + DIRS_8[k][1], current[2] + DIRS_8[k][2]>>
             out == \/ neighbor[1] < box.left \/ neighbor[1] > box.right
                    \/ neighbor[2] < box.top  \/ neighbor[2] > box.bottom
             st2 == IF ~out /\ Unclaimed(st.t, neighbor)
                    THEN [t |-> [p \in DOMAIN st.t \cup {neighbor} |->
                                   IF p = neighbor THEN roomId ELSE st.t[p]],
                          q |-> Append(st.q, neighbor)]
                    ELSE st
         IN  VisitNeighbors(st2, roomId, current, box, k + 1)

\* the while loop over the queue, from queueIndex on
RECURSIVE FloodFill(_, _, _, _)
FloodFill(st, roomId, box, queueIndex) ==
    IF queueIndex > Len(st.q) THEN st
    ELSE FloodFill(VisitNeighbors(st, roomId, st.q[queueIndex], box, 1),
                   roomId, box, queueIndex + 1)

\* the room loop without the test of the seed tile
GrowFrom_NoSeedCheck(t, roomId, start, size) ==
    LET left   == Max(0, start[1] - (size[1] \div 2))
        top    == Max(0, start[2] - (size[2] \div 2))
        right  == Min(WIDTH - 1, left + size[1] - 1)
        bottom == Min(HEIGHT - 1, top + size[2] - 1)
        box == [left |-> left, top |-> top, right |-> right, bottom |-> bottom]
    IN  FloodFill([t |-> [p \in DOMAIN t \cup {start} |->
                            IF p = start THEN roomId ELSE t[p]],
                   q |-> <<start>>],
                  roomId, box, 1)

\* the body of the room loop for one room with seed start and footprint
\* size on a map of width by height tiles; the result is the new tile map
\* and the room's tile list
GrowFromIn(t, roomId, start, size, width, height) ==
    LET left   == Max(0, start[1] - (size[1] \div 2))
        top    == Max(0, start[2] - (size[2] \div 2))
        right  == Min(width - 1, left + size[1] - 1)
        bottom == Min(height - 1, top + size[2] - 1)
        box == [left |-> left, top |-> top, right |-> right, bottom |-> bottom]
    IN  IF TilesHas(t, start)
        THEN [t |-> t, q |-> << >>]
        ELSE FloodFill([t |-> [p \in DOMAIN t \cup {start} |->
                                 IF p = start THEN roomId ELSE t[p]],
                        q |-> <<start>>],
                       roomId, box, 1)

\* the room loop on the map of WIDTH by HEIGHT tiles
GrowFrom(t, roomId, start, size) ==
    GrowFromIn(t, roomId, start, size, WIDTH, HEIGHT)

NewRoom(seed) ==
    [center |-> seed, tiles |-> << >>, adjacent |-> << >>, explored |-> FALSE]

EmptyMap == [p \in {} |-> Null]

\* ---------------------------------------------- walls and door candidates
\* doorCandidates is the Map in insertion order: a sequence of
\* [key |-> <<lower room, higher room>>, edges |-> sequence of candidates]
CandidateIndex_Never(c, key) == 0

CandidateIndex(c, key) ==
    LET found == { i \in 1..Len(c) : c[i].key = key }
    IN  IF found = {} THEN 0 ELSE CHOOSE i \in found : TRUE

\* walls only between two rooms, none against unallocated space
NeedsWall_RoomsOnly(room1, room2) ==
    room1 # room2 /\ room1 # Null /\ room2 # Null

\* the rooms on the two sides differ: the edge gets a wall
NeedsWall(room1, room2) == room1 # room2

\* st = [w |-> walls, c |-> doorCandidates], t the finished tile map
addWallMaybe(st, t, p1, p2, edge) ==
    LET room1 == roomAt(t, p1)
        room2 == roomAt(t, p2)
    IN  IF NeedsWall(room1, room2)
        THEN LET w2 == st.w \cup {edge}
             IN  IF room1 # Null /\ room2 # Null
                 THEN LET key == <<Min(room1, room2), Max(room1, room2)>>
                          i == CandidateIndex(st.c, key)
                          entry == [tile1 |-> p1, tile2 |-> p2, edge |-> edge]
                      IN  [w |-> w2,
                           c |-> IF i = 0
                                 THEN Append(st.c, [key |-> key, edges |-> <<entry>>])
                                 ELSE [st.c EXCEPT ![i].edges = Append(@, entry)]]
                 ELSE [w |-> w2, c |-> st.c]
        ELSE st

\* the four addWallMaybe calls for one tile
WallsAroundTile(st, t, p) ==
    LET x == p[1]
        y == p[2]
        s1 == addWallMaybe(st, t, <<x - 1, y>>, <<x, y>>, <<x, y, "W">>)
        s2 == addWallMaybe(s1, t, <<x, y - 1>>, <<x, y>>, <<x, y, "N">>)
        s3 == addWallMaybe(s2, t, <<x, y>>, <<x + 1, y>>, <<x + 1, y, "W">>)
    IN  addWallMaybe(s3, t, <<x, y>>, <<x, y + 1>>, <<x, y + 1, "N">>)

RECURSIVE WallsOfTiles(_, _, _, _)
WallsOfTiles(st, t, tileList, i) ==
    IF i > Len(tileList) THEN st
    ELSE WallsOfTiles(WallsAroundTile(st, t, tileList[i]), t, tileList, i + 1)

\* the loop over gameMap.rooms.values() (ascending room id: the Map keeps
\* insertion order), from room id r on
RECURSIVE WallsOfRooms(_, _, _, _)
WallsOfRooms(st, t, rms, r) ==
    IF r >= NUM_ROOMS THEN st
    ELSE WallsOfRooms(IF r \in DOMAIN rms
                      THEN WallsOfTiles(st, t, rms[r].tiles, 1)
                      ELSE st,
                      t, rms, r + 1)

\* no room is removed
PruneRooms_KeepAll(rms) == rms

\* rooms that failed to allocate any tiles are removed
PruneRooms(rms) ==
    [r \in { r \in DOMAIN rms : Len(rms[r].tiles) # 0 } |-> rms[r]]

\* the door recorded open
DoorRecord_Open(cand) == [tile1 |-> cand.tile1, tile2 |-> cand.tile2, open |-> TRUE]

\* one door is made of the chosen candidate: the wall is deleted, the door
\* recorded closed, the adjacency pushed on both rooms
DoorRecord(cand) == [tile1 |-> cand.tile1, tile2 |-> cand.tile2, open |-> FALSE]

\* only the first of the two pushes
PushAdjacent_OneSided(rms, roomId1, roomId2, edge) ==
    [rms EXCEPT ![roomId1].adjacent =
       Append(@, [roomId |-> roomId2, doorId |-> edge])]

\* map.ts:275-276: the two pushes on the adjacency lists
PushAdjacent(rms, roomId1, roomId2, edge) ==
    LET r1 == [rms EXCEPT ![roomId1].adjacent =
                 Append(@, [roomId |-> roomId2, doorId |-> edge])]
    IN  [r1 EXCEPT ![roomId2].adjacent =
           Append(@, [roomId |-> roomId1, doorId |-> edge])]

\* --------------------------------------------------------- entity store
\* an entity of the store: entity.ts:86-97 (create) with the properties the
\* simulation reads; hp = Null is "no hp", ai = "none" is "no ai"
Player0 ==
    [type |-> "player", loc |-> NOWHERE, hp |-> 100, base_max_hp |-> 100,
     base_defense |-> 1, base_power |-> 4, dead |-> FALSE,
     ai |-> "none", turns |-> 0, xp |-> 0]

Thing(type, loc) ==
    [type |-> type, loc |-> loc, hp |-> Null, base_max_hp |-> Null,
     base_defense |-> 0, base_power |-> 0, dead |-> FALSE,
     ai |-> "none", turns |-> 0, xp |-> Null]

\* monsterProps of populateRoom; create sets hp to base_max_hp
Monster(type, loc) ==
    IF type = "orc"
    THEN [type |-> "orc", loc |-> loc, hp |-> 20, base_max_hp |-> 20,
          base_defense |-> 0, base_power |-> 4, dead |-> FALSE,
          ai |-> "move_to_player", turns |-> 0, xp |-> Null]
    ELSE [type |-> "troll", loc |-> loc, hp |-> 30, base_max_hp |-> 30,
          base_defense |-> 2, base_power |-> 8, dead |-> FALSE,
          ai |-> "move_to_player", turns |-> 0, xp |-> Null]

\* entity.ts:159-179: the player (id 1) and the equipped dagger and towel
Entities0 ==
    (1 :> Player0) @@
    (2 :> Thing("dagger", <<"equipped_by", 1, 0>>)) @@
    (3 :> Thing("towel", <<"equipped_by", 1, 1>>))

\* ENTITY_PROPERTIES, by the current type
Blocks(type) == type \in {"player", "troll", "orc"}
IsStairs(type) == type = "stairs"
XpAward(type) == IF type = "troll" THEN 100 ELSE IF type = "orc" THEN 35 ELSE Null
BonusPower(type) == IF type = "sword" THEN 3 ELSE 0
BonusDefense(type) == IF type = "shield" THEN 1 ELSE 0

\* isOnMap: the location is a point
OnMapLoc(loc) == Len(loc) = 2

\* onMap(): the ids of the entities on the map
onMap(ents) == { id \in DOMAIN ents : OnMapLoc(ents[id].loc) }

allAt(ents, p) == { id \in onMap(ents) : ents[id].loc = p }

SetMin(S) == CHOOSE m \in S : \A n \in S : m <= n
SetMax(S) == CHOOSE m \in S : \A n \in S : m >= n

\* no entity is ever found
blockingEntityAt_Nothing(ents, p) == Null

\* blockingEntityAt: the first blocking entity at p (in id order), or Null
blockingEntityAt(ents, p) ==
    LET found == { id \in allAt(ents, p) : Blocks(ents[id].type) }
    IN  IF found = {} THEN Null ELSE SetMin(found)

\* the blockingEntityAt call throws: more than one blocking entity at p
BlockingThrows(ents, p) ==
    Cardinality({ id \in allAt(ents, p) : Blocks(ents[id].type) }) > 1

Equipped(ents, id) ==
    { e \in DOMAIN ents : /\ Len(ents[e].loc) = 3
                          /\ ents[e].loc[1] = "equipped_by"
                          /\ ents[e].loc[2] = id }

effective_max_hp(ents, id) == ents[id].base_max_hp
effective_power(ents, id) ==
    ents[id].base_power
      + Cardinality({ e \in Equipped(ents, id) : ents[e].type = "sword" }) * BonusPower("sword")
effective_defense(ents, id) ==
    ents[id].base_defense
      + Cardinality({ e \in Equipped(ents, id) : ents[e].type = "shield" }) * BonusDefense("shield")

\* entities.create: the next id, the entity stored
Create(st, ent) ==
    [ents |-> (st.nid + 1 :> ent) @@ st.ents, nid |-> st.nid + 1]

\* ------------------------------------------------- visibility, exploring
\* isVisible throws when from is a tile of no room
isVisibleThrows(t, from) == ~ TilesHas(t, from)

\* sight into a neighbouring room from any tile, not only from the doorway
isVisible_AnyTile(t, rms, drs, from, to) ==
    LET room1 == roomAt(t, from)
        room2 == roomAt(t, to)
    IN  IF room1 = room2 THEN TRUE
        ELSE \E i \in 1..Len(rms[room1].adjacent) :
                rms[room1].adjacent[i].roomId = room2

\* the tile records compared instead of their room ids
isVisible_SameTile(t, rms, drs, from, to) ==
    LET room1 == roomAt(t, from)
        room2 == roomAt(t, to)
    IN  IF from = to THEN TRUE
        ELSE \E i \in 1..Len(rms[room1].adjacent) :
                LET adj == rms[room1].adjacent[i]
                    door == drs[adj.doorId]
                IN  /\ adj.roomId = room2
                    /\ (door.tile1 = from \/ door.tile2 = from)

\* map.ts:164-184
isVisible(t, rms, drs, from, to) ==
    LET room1 == roomAt(t, from)
        room2 == roomAt(t, to)
    IN  IF room1 = room2 THEN TRUE
        ELSE \E i \in 1..Len(rms[room1].adjacent) :
                LET adj == rms[room1].adjacent[i]
                    door == drs[adj.doorId]
                IN  /\ adj.roomId = room2
                    /\ (door.tile1 = from \/ door.tile2 = from)

\* setExplored without the test of the room
setExploredThrows_Never(t, rms, at) == FALSE

\* setExplored throws when at is a tile of no room of the mapping
setExploredThrows(t, rms, at) == roomAt(t, at) \notin DOMAIN rms

\* the explored flag kept for the current room only
setExplored_CurrentOnly(t, rms, at) ==
    [r \in DOMAIN rms |-> [rms[r] EXCEPT !.explored = (r = roomAt(t, at))]]

\* map.ts:154-159
setExplored(t, rms, at) ==
    [rms EXCEPT ![roomAt(t, at)].explored = TRUE]

isExplored(t, rms, at) ==
    IF roomAt(t, at) \in DOMAIN rms THEN rms[roomAt(t, at)].explored ELSE FALSE

\* ----------------------------------------------------------- edge state
\* gameMap.edges of simulation.ts and ui.ts, read off the wall set and the
\* door records: "wall", "closed-door", "open-door", or "none" for no entry
EdgesGet(w, drs, edge) ==
    IF edge \in w THEN "wall"
    ELSE IF edge \in DOMAIN drs
         THEN (IF drs[edge].open THEN "open-door" ELSE "closed-door")
         ELSE "none"

\* gameMap.edges.set(edge, 'open-door')
EdgesSetOpen(drs, edge) == [drs EXCEPT ![edge].open = TRUE]

\* only walls block: the test of the version before doors had a state
canMoveTo_WallsOnly(w, drs, loc, p) ==
    EdgesGet(w, drs, edgeBetween(loc, p)) # "wall"

\* simulation.ts:12-16, for the entity at location loc
canMoveTo(w, drs, loc, p) ==
    LET edge == edgeBetween(loc, p)
        edgeData == EdgesGet(w, drs, edge)
    IN  edgeData = "none" \/ edgeData = "open-door"

\* ---------------------------------------------------------------- combat
\* simulation.ts:143-153; the xp goes to a source that has xp (the player)
takeDamage(ents, source, target, amount) ==
    LET hp2 == ents[target].hp - amount
    IN  IF hp2 <= 0
        THEN LET award == XpAward(ents[target].type)
                 e1 == IF award # Null /\ ents[source].xp # Null
                       THEN [ents EXCEPT ![source].xp = @ + award]
                       ELSE ents
             IN  [e1 EXCEPT ![target].hp = hp2, ![target].dead = TRUE,
                            ![target].type = "corpse", ![target].ai = "none"]
        ELSE [ents EXCEPT ![target].hp = hp2]

\* simulation.ts:155-164
attack(ents, attacker, defender) ==
    LET damage == effective_power(ents, attacker) - effective_defense(ents, defender)
    IN  IF damage > 0 THEN takeDamage(ents, attacker, defender, damage) ELSE ents

Sign(n) == IF n > 0 THEN 1 ELSE IF n < 0 THEN -1 ELSE 0

\* the steps the randint draw of a 'move_to_player' monster can give
ChaseSteps(dx, dy) ==
    { <<Sign(dx), 0>> : r \in 1..Abs(dx) } \cup { <<0, Sign(dy)>> : r \in 1..Abs(dy) }

\* a confused monster also stumbles diagonally
ConfusedSteps_Diagonal ==
    { <<-1, 0>>, <<1, 0>>, <<0, -1>>, <<0, 1>>, <<1, 1>>, <<-1, -1>> }

\* the steps of randint(0, 3) (simulation.ts:336-342)
ConfusedSteps == { <<-1, 0>>, <<1, 0>>, <<0, -1>>, <<0, 1>> }

\* every monster sees the player from anywhere
MonsterSees_Always(t, rms, drs, ents, id) == TRUE

\* the monster sees the player: the player sees the monster
MonsterSees(t, rms, drs, ents, id) ==
    isVisible(t, rms, drs, ents[PlayerId].loc, ents[id].loc)

\* one iteration of the loop of enemiesMove (simulation.ts:300-358) for the
\* entity id: the set of entity stores it can leave
MonsterAct(t, rms, w, drs, ents, id) ==
    LET e == ents[id] IN
    IF e.dead \/ e.ai = "none" THEN {ents}
    ELSE IF e.ai = "move_to_player"
    THEN IF ~ MonsterSees(t, rms, drs, ents, id) THEN {ents}
         ELSE LET dx == ents[PlayerId].loc[1] - e.loc[1]
                  dy == ents[PlayerId].loc[2] - e.loc[2]
              IN  IF dx = 0 /\ dy = 0 THEN {ents}
                  ELSE { LET p == <<e.loc[1] + step[1], e.loc[2] + step[2]>>
                             target == blockingEntityAt(ents, p)
                         IN  IF canMoveTo(w, drs, e.loc, p)
                             THEN IF target = PlayerId THEN attack(ents, id, PlayerId)
                                  ELSE IF target # Null THEN ents
                                  ELSE [ents EXCEPT ![id].loc = p]
                             ELSE ents
                         : step \in ChaseSteps(dx, dy) }
    ELSE \* confused
         IF e.turns - 1 > 0
         THEN { LET p == <<e.loc[1] + step[1], e.loc[2] + step[2]>>
                    e1 == [ents EXCEPT ![id].turns = @ - 1]
                IN  IF canMoveTo(w, drs, e.loc, p) /\ blockingEntityAt(ents, p) = Null
                    THEN [e1 EXCEPT ![id].loc = p]
                    ELSE e1
                : step \in ConfusedSteps }
         ELSE {[ents EXCEPT ![id].turns = @ - 1, ![id].ai = "move_to_player"]}

\* the ids of a set in ascending order: the iteration order of the store
RECURSIVE Ascending(_)
Ascending(S) ==
    IF S = {} THEN << >>
    ELSE LET m == SetMin(S) IN <<m>> \o Ascending(S \ {m})

RECURSIVE EnemiesFrom(_, _, _, _, _, _, _)
EnemiesFrom(t, rms, w, drs, ents, ids, i) ==
    IF i > Len(ids) THEN {ents}
    ELSE UNION { EnemiesFrom(t, rms, w, drs, e2, ids, i + 1)
                 : e2 \in MonsterAct(t, rms, w, drs, ents, ids[i]) }

\* enemiesMove: the entity stores one monster turn can leave
enemiesMove(t, rms, w, drs, ents) ==
    EnemiesFrom(t, rms, w, drs, ents, Ascending(onMap(ents)), 1)

\* ---------------------------------------------------------------- spells
\* maximum_range and damage of castFireball (simulation.ts:168-169)
FireballRange == 3
FireballDamage == 25

\* distance(a, b) <= range, distance being Math.hypot (util.ts:18-20)
WithinDistance(a, b, range) ==
    (a[1] - b[1]) * (a[1] - b[1]) + (a[2] - b[2]) * (a[2] - b[2]) <= range * range

\* the entities on the map that have hp and are not dead
Living(ents) == { id \in onMap(ents) : ents[id].hp # Null /\ ~ ents[id].dead }

\* the filters of simulation.ts:175-179
Attackables(t, rms, drs, ents, caster, p) ==
    { id \in Living(ents) :
        /\ isVisible(t, rms, drs, p, ents[id].loc)
        /\ isVisible(t, rms, drs, ents[caster].loc, ents[id].loc)
        /\ WithinDistance(ents[id].loc, p, FireballRange) }

\* the loop of simulation.ts:182-185
RECURSIVE BurnAll(_, _, _, _)
BurnAll(ents, caster, ids, i) ==
    IF i > Len(ids) THEN ents
    ELSE BurnAll(takeDamage(ents, caster, ids[i], FireballDamage), caster, ids, i + 1)

\* simulation.ts:167-187: what the call returns and the store it leaves.
\* The second filter calls isVisible from the target, which throws when the
\* target is a tile of no room
castFireball(t, rms, drs, ents, caster, p) ==
    IF isVisible(t, rms, drs, ents[caster].loc, p)
    THEN [ret |-> FALSE, ents |-> ents]
    ELSE IF isVisibleThrows(t, p) /\ Living(ents) # {}
    THEN [ret |-> Thrown, ents |-> ents]
    ELSE [ret |-> TRUE,
          ents |-> BurnAll(ents, caster,
                           Ascending(Attackables(t, rms, drs, ents, caster, p)), 1)]

\* turns of castConfusion (simulation.ts:198)
ConfusionTurns == 10

\* simulation.ts:190-204: what the call returns and the store it leaves
castConfusion(t, rms, drs, ents, caster, p) ==
    IF ~ isVisible(t, rms, drs, ents[caster].loc, p)
    THEN [ret |-> FALSE, ents |-> ents]
    ELSE LET target == blockingEntityAt(ents, p)
         IN  IF /\ target # Null
                /\ ents[target].hp # Null
                /\ ~ ents[target].dead
                /\ ents[target].ai # "none"
             THEN [ret |-> TRUE,
                   ents |-> [ents EXCEPT ![target].ai = "confused",
                                         ![target].turns = ConfusionTurns]]
             ELSE [ret |-> FALSE, ents |-> ents]

\* ---------------------------------------------------------- populateRoom
\* RNG.getWeightedValue returns a key of positive weight
MonsterTypes(level) ==
    {"orc"} \cup
    (IF evaluateStepFunction(<< <<3, 15>>, <<5, 30>>, <<7, 60>> >>, level) > 0
     THEN {"troll"} ELSE {})

ItemTypes(level) ==
    {"healing potion"}
    \cup (IF evaluateStepFunction(<< <<4, 25>> >>, level) > 0 THEN {"lightning scroll"} ELSE {})
    \cup (IF evaluateStepFunction(<< <<6, 25>> >>, level) > 0 THEN {"fireball scroll"} ELSE {})
    \cup (IF evaluateStepFunction(<< <<2, 10>> >>, level) > 0 THEN {"confusion scroll"} ELSE {})
    \cup (IF evaluateStepFunction(<< <<4, 5>> >>, level) > 0 THEN {"sword"} ELSE {})
    \cup (IF evaluateStepFunction(<< <<8, 15>> >>, level) > 0 THEN {"shield"} ELSE {})

maxMonstersPerRoom(level) ==
    evaluateStepFunction(<< <<1, 2>>, <<4, 3>>, <<6, 5>> >>, level)
maxItemsPerRoom(level) ==
    evaluateStepFunction(<< <<1, 1>>, <<4, 2>> >>, level)

SeqToSet(q) == { q[i] : i \in 1..Len(q) }

\* the monster loop, n draws left: the set of stores [ents, nid] it can leave
RECURSIVE SpawnMonsters(_, _, _, _)
SpawnMonsters(st, room, level, n) ==
    IF n = 0 THEN {st}
    ELSE UNION { IF blockingEntityAt(st.ents, p) = Null
                 THEN UNION { SpawnMonsters(Create(st, Monster(type, p)), room, level, n - 1)
                              : type \in MonsterTypes(level) }
                 ELSE SpawnMonsters(st, room, level, n - 1)
                 : p \in SeqToSet(room.tiles) }

RECURSIVE SpawnItems(_, _, _, _)
SpawnItems(st, room, level, n) ==
    IF n = 0 THEN {st}
    ELSE UNION { IF allAt(st.ents, p) = {}
                 THEN UNION { SpawnItems(Create(st, Thing(type, p)), room, level, n - 1)
                              : type \in ItemTypes(level) }
                 ELSE SpawnItems(st, room, level, n - 1)
                 : p \in SeqToSet(room.tiles) }

\* the monster loop runs once more than the number drawn
populateRoom_OneMore(st, room, level, numMonsters, numItems) ==
    UNION { SpawnItems(s1, room, level, numItems)
            : s1 \in SpawnMonsters(st, room, level, numMonsters + 1) }

\* map.ts:106-144 with numMonsters and numItems drawn
populateRoom(st, room, level, numMonsters, numItems) ==
    UNION { SpawnItems(s1, room, level, numItems)
            : s1 \in SpawnMonsters(st, room, level, numMonsters) }

\* ------------------------------------------------------------------ Init
\* map.ts:304-305: gameMap = {dungeonLevel: 0}; goToNextLevel() starts
\* createGameMap(1)
Init ==
    /\ pc = "grow"
    /\ caller = "load"
    /\ dungeonLevel = 1
    /\ tiles = EmptyMap
    /\ walls = {}
    /\ doors = [e \in {} |-> Null]
    /\ rooms = [r \in {} |-> Null]
    /\ doorCandidates = << >>
    /\ idx = 0
    /\ entities = Entities0
    /\ nextId = 3
    /\ enemyTurns = 0
    /\ call = << >>
    /\ ret = Null

\* ------------------------------------------------- createGameMap, steps
\* one iteration of the room loop (map.ts:200-232) for roomId = idx
GrowRoom ==
    /\ pc = "grow"
    /\ idx < NUM_ROOMS
    /\ \E seed \in SeedPoints, size \in RoomSizes(idx) :
          LET g == GrowFrom(tiles, idx, seed, size)
          IN  /\ tiles' = g.t
              /\ rooms' = [r \in DOMAIN rooms \cup {idx} |->
                             IF r = idx THEN [NewRoom(seed) EXCEPT !.tiles = g.q]
                             ELSE rooms[r]]
    /\ idx' = idx + 1
    /\ UNCHANGED <<pc, caller, dungeonLevel, walls, doors, doorCandidates,
                   entities, nextId, enemyTurns>>
    /\ UNCHANGED <<call, ret>>

\* map.ts:234-266: prune the empty rooms, add the thin walls, collect the
\* door candidates
BuildWalls ==
    /\ pc = "grow"
    /\ idx = NUM_ROOMS
    /\ LET rms == PruneRooms(rooms)
           st == WallsOfRooms([w |-> {}, c |-> << >>], tiles, rms, 0)
       IN  /\ rooms' = rms
           /\ walls' = st.w
           /\ doorCandidates' = st.c
    /\ pc' = "doors"
    /\ idx' = 1
    /\ UNCHANGED <<caller, dungeonLevel, tiles, doors, entities, nextId,
                   enemyTurns>>
    /\ UNCHANGED <<call, ret>>

\* one iteration of the door loop (map.ts:269-278) for the idx-th room pair
AddDoor ==
    /\ pc = "doors"
    /\ idx <= Len(doorCandidates)
    /\ \E k \in 1..Len(doorCandidates[idx].edges) :
          LET cand == doorCandidates[idx].edges[k]
              roomId1 == roomAt(tiles, cand.tile1)
              roomId2 == roomAt(tiles, cand.tile2)
          IN  IF roomId1 # Null /\ roomId2 # Null
              THEN /\ walls' = walls \ {cand.edge}
                   /\ doors' = [e \in DOMAIN doors \cup {cand.edge} |->
                                  IF e = cand.edge THEN DoorRecord(cand)
                                  ELSE doors[e]]
                   /\ rooms' = PushAdjacent(rooms, roomId1, roomId2, cand.edge)
              ELSE UNCHANGED <<walls, doors, rooms>>
    /\ idx' = idx + 1
    /\ UNCHANGED <<pc, caller, dungeonLevel, tiles, doorCandidates, entities,
                   nextId, enemyTurns>>
    /\ UNCHANGED <<call, ret>>

\* nonEmptyRooms[0]: the rooms in the order of the Map, which is the order
\* of the room ids
FirstRoom(rms) == rms[SetMin(DOMAIN rms)]

\* the stairs put in the first room as well
LastRoom_First(rms) == rms[SetMin(DOMAIN rms)]

\* nonEmptyRooms[nonEmptyRooms.length - 1]
LastRoom(rms) == rms[SetMax(DOMAIN rms)]

\* map.ts:282-289: the player goes to the center of the first room, the
\* stairs are created at the center of the last room
PlaceEntities ==
    /\ pc = "doors"
    /\ idx > Len(doorCandidates)
    /\ LET first == FirstRoom(rooms)
           last == LastRoom(rooms)
           moved == [entities EXCEPT ![PlayerId].loc = first.center]
           st == Create([ents |-> moved, nid |-> nextId], Thing("stairs", last.center))
       IN  /\ entities' = st.ents
           /\ nextId' = st.nid
    /\ pc' = "populate"
    /\ idx' = 1
    /\ doorCandidates' = << >>
    /\ UNCHANGED <<caller, dungeonLevel, tiles, walls, doors, rooms, enemyTurns>>
    /\ UNCHANGED <<call, ret>>

\* the monsters on the map, alive or dead
MonstersSpawned(ents) ==
    Cardinality({ id \in DOMAIN ents : ents[id].base_max_hp # Null /\ id # PlayerId })
ItemsSpawned(ents) ==
    Cardinality({ id \in onMap(ents) :
                    ents[id].base_max_hp = Null /\ ents[id].type # "stairs" })

\* what follows the return of createGameMap: playerGoDownStairs heals the
\* player (simulation.ts:287-289); draw() marks the player's room explored
\* (ui.ts:63-65, called at ui.ts:480 and simulation.ts:292)
AfterCreate(ents, rms, who) ==
    [ents |-> IF who = "stairs"
              THEN [ents EXCEPT ![PlayerId].hp =
                      clamp(@ + (effective_max_hp(ents, PlayerId) \div 2),
                            0, effective_max_hp(ents, PlayerId))]
              ELSE ents,
     rms |-> setExplored(tiles, rms, ents[PlayerId].loc)]

\* one iteration of the loop of map.ts:292-294 for the idx-th room; after
\* the last room createGameMap returns
PopulateRoom ==
    /\ pc = "populate"
    /\ LET order == Ascending(DOMAIN rooms)
           room == rooms[order[idx]]
       IN  \E numMonsters \in 0..Min(maxMonstersPerRoom(dungeonLevel),
                                     MaxMonsters - MonstersSpawned(entities)),
              numItems \in 0..Min(maxItemsPerRoom(dungeonLevel),
                                  MaxItems - ItemsSpawned(entities)) :
             \E st \in populateRoom([ents |-> entities, nid |-> nextId], room,
                                    dungeonLevel, numMonsters, numItems) :
                /\ nextId' = st.nid
                /\ IF idx = Len(order)
                   THEN LET done == AfterCreate(st.ents, rooms, caller)
                        IN  /\ entities' = done.ents
                            /\ rooms' = done.rms
                            /\ pc' = "play"
                            /\ idx' = 0
                   ELSE /\ entities' = st.ents
                        /\ idx' = idx + 1
                        /\ UNCHANGED <<rooms, pc>>
    /\ UNCHANGED <<caller, dungeonLevel, tiles, walls, doors, doorCandidates,
                   enemyTurns>>
    /\ UNCHANGED <<call, ret>>

\* ---------------------------------------------------------- player turns
Moves == { <<1, 0>>, <<-1, 0>>, <<0, 1>>, <<0, -1>>, <<0, 0>> }

CanAct ==
    /\ pc = "play"
    /\ ~ entities[PlayerId].dead
    /\ enemyTurns < MaxTurns

\* the monster turn that ends a player turn, then draw() of runAction
MonstersThenDraw(drs, ents) ==
    /\ \E e2 \in enemiesMove(tiles, rooms, walls, drs, ents) :
          /\ entities' = e2
          /\ rooms' = setExplored(tiles, rooms, e2[PlayerId].loc)
    /\ enemyTurns' = enemyTurns + 1

\* the player steps through the door in the turn that opens it
playerMoveBy_ThroughDoor(dx, dy) ==
    /\ CanAct
    /\ LET player == entities[PlayerId]
           p == <<player.loc[1] + dx, player.loc[2] + dy>>
           edge == edgeBetween(player.loc, p)
       IN  IF EdgesGet(walls, doors, edge) = "closed-door"
           THEN /\ doors' = EdgesSetOpen(doors, edge)
                /\ MonstersThenDraw(doors', [entities EXCEPT ![PlayerId].loc = p])
           ELSE IF canMoveTo(walls, doors, player.loc, p)
           THEN LET target == blockingEntityAt(entities, p)
                    e1 == IF target # Null /\ target # PlayerId
                          THEN attack(entities, PlayerId, target)
                          ELSE [entities EXCEPT ![PlayerId].loc = p]
                IN  /\ doors' = doors
                    /\ MonstersThenDraw(doors, e1)
           ELSE /\ rooms' = setExplored(tiles, rooms, player.loc)
                /\ UNCHANGED <<doors, entities, enemyTurns>>
    /\ UNCHANGED <<pc, caller, dungeonLevel, tiles, walls, doorCandidates,
                   idx, nextId>>
    /\ UNCHANGED <<call, ret>>

\* a move into a wall costs a turn
MoveBy_BumpCostsTurn(dx, dy) ==
    /\ LET player == entities[PlayerId]
           p == <<player.loc[1] + dx, player.loc[2] + dy>>
           edge == edgeBetween(player.loc, p)
       IN  IF EdgesGet(walls, doors, edge) = "closed-door"
           THEN /\ doors' = EdgesSetOpen(doors, edge)
                /\ MonstersThenDraw(doors', entities)
           ELSE IF canMoveTo(walls, doors, player.loc, p)
           THEN LET target == blockingEntityAt(entities, p)
                    e1 == IF target # Null /\ target # PlayerId
                          THEN attack(entities, PlayerId, target)
                          ELSE [entities EXCEPT ![PlayerId].loc = p]
                IN  /\ doors' = doors
                    /\ MonstersThenDraw(doors, e1)
           ELSE /\ doors' = doors
                /\ MonstersThenDraw(doors, entities)
    /\ UNCHANGED <<pc, caller, dungeonLevel, tiles, walls, doorCandidates,
                   idx, nextId>>

\* simulation.ts:250-268, then draw() of runAction (ui.ts:429)
MoveBy(dx, dy) ==
    /\ LET player == entities[PlayerId]
           p == <<player.loc[1] + dx, player.loc[2] + dy>>
           edge == edgeBetween(player.loc, p)
       IN  IF EdgesGet(walls, doors, edge) = "closed-door"
           THEN /\ doors' = EdgesSetOpen(doors, edge)
                /\ MonstersThenDraw(doors', entities)
           ELSE IF canMoveTo(walls, doors, player.loc, p)
           THEN LET target == blockingEntityAt(entities, p)
                    e1 == IF target # Null /\ target # PlayerId
                          THEN attack(entities, PlayerId, target)
                          ELSE [entities EXCEPT ![PlayerId].loc = p]
                IN  /\ doors' = doors
                    /\ MonstersThenDraw(doors, e1)
           ELSE /\ rooms' = setExplored(tiles, rooms, player.loc)
                /\ UNCHANGED <<doors, entities, enemyTurns>>
    /\ UNCHANGED <<pc, caller, dungeonLevel, tiles, walls, doorCandidates,
                   idx, nextId>>

\* simulation.ts:250-268, called by runAction (ui.ts:379-383)
playerMoveBy(dx, dy) ==
    /\ CanAct
    /\ MoveBy(dx, dy)
    /\ UNCHANGED <<call, ret>>

PlayerMove == \E m \in Moves : playerMoveBy(m[1], m[2])

\* nothing is deleted
RemoveOnMap_Nothing(ents) == ents

\* simulation.ts:277-282: everything on the map but the player is deleted
RemoveOnMap(ents) ==
    [id \in DOMAIN ents \ (onMap(ents) \ {PlayerId}) |-> ents[id]]

\* the stairs are under the player (simulation.ts:272)
OnStairs ==
    \E id \in allAt(entities, entities[PlayerId].loc) : IsStairs(entities[id].type)

\* the test for the stairs is not made
GoDownStairs_Anywhere ==
    /\ dungeonLevel < MaxLevel
    /\ entities' = RemoveOnMap(entities)
    /\ dungeonLevel' = dungeonLevel + 1
    /\ pc' = "grow"
    /\ caller' = "stairs"
    /\ tiles' = EmptyMap
    /\ walls' = {}
    /\ doors' = [e \in {} |-> Null]
    /\ rooms' = [r \in {} |-> Null]
    /\ doorCandidates' = << >>
    /\ idx' = 0
    /\ enemyTurns' = 0
    /\ UNCHANGED nextId

\* simulation.ts:270-293 up to the call of goToNextLevel; createGameMap
\* then runs its steps, and AfterCreate ends the handler. Without stairs
\* under the player the function returns at once (simulation.ts:272-275)
\* and runAction draws (ui.ts:429)
GoDownStairs ==
    IF OnStairs
    THEN /\ dungeonLevel < MaxLevel
         /\ entities' = RemoveOnMap(entities)
         /\ dungeonLevel' = dungeonLevel + 1
         /\ pc' = "grow"
         /\ caller' = "stairs"
         /\ tiles' = EmptyMap
         /\ walls' = {}
         /\ doors' = [e \in {} |-> Null]
         /\ rooms' = [r \in {} |-> Null]
         /\ doorCandidates' = << >>
         /\ idx' = 0
         /\ enemyTurns' = 0
         /\ UNCHANGED nextId
    ELSE /\ rooms' = setExplored(tiles, rooms, entities[PlayerId].loc)
         /\ UNCHANGED <<pc, caller, dungeonLevel, tiles, walls, doors,
                        doorCandidates, idx, entities, nextId, enemyTurns>>

\* the key '>' (ui.ts:349, 391)
playerGoDownStairs ==
    /\ pc = "play"
    /\ ~ entities[PlayerId].dead
    /\ GoDownStairs
    /\ UNCHANGED <<call, ret>>

\* the whole game: levels 1..MaxLevel
Next ==
    \/ GrowRoom
    \/ BuildWalls
    \/ AddDoor
    \/ PlaceEntities
    \/ PopulateRoom
    \/ PlayerMove
    \/ playerGoDownStairs

Spec == Init /\ [][Next]_vars

\* one level: createGameMap at load, then the player's moves on that map
NextLevel ==
    \/ GrowRoom
    \/ BuildWalls
    \/ AddDoor
    \/ PlaceEntities
    \/ PopulateRoom
    \/ PlayerMove

SpecLevel == Init /\ [][NextLevel]_vars

\* the tables given to evaluateStepFunction: up to MaxTableLen entries
\* <<threshold, value>>, sorted by threshold as its doc comment asks
\* (util.ts:22-23)
StepTables ==
    { table \in UNION { [1..n -> (1..MaxThreshold) \X (1..MaxStepValue)]
                        : n \in 0..MaxTableLen } :
        \A i \in 1..(Len(table) - 1) : table[i][1] <= table[i + 1][1] }

\* a call evaluateStepFunction(table, x) (util.ts:22-27; map.ts:107-135)
CallEvaluateStepFunction ==
    /\ \E table \in StepTables, x \in 0..(MaxThreshold + 1) :
          /\ call' = <<"evaluateStepFunction", table, x>>
          /\ ret' = evaluateStepFunction(table, x)
    /\ UNCHANGED <<pc, caller, dungeonLevel, tiles, walls, doors, rooms,
                   doorCandidates, idx, entities, nextId, enemyTurns>>

\* evaluateStepFunction called with every sorted table and every x
SpecStep == Init /\ [][CallEvaluateStepFunction]_vars

\* the points given to a direct call
CallPoints ==
    ((0 - PointMargin)..(WIDTH + PointMargin - 1))
       \X ((0 - PointMargin)..(HEIGHT + PointMargin - 1))

\* a call edgeBetween(a, b) from outside the map module (simulation.ts:13,
\* 254; ui.ts), with any two points
CallEdgeBetween ==
    /\ \E a \in CallPoints, b \in CallPoints :
          /\ call' = <<"edgeBetween", a, b>>
          /\ ret' = edgeBetween(a, b)
    /\ UNCHANGED <<pc, caller, dungeonLevel, tiles, walls, doors, rooms,
                   doorCandidates, idx, entities, nextId, enemyTurns>>

\* edgeBetween called with every pair of points
SpecEdge == Init /\ [][CallEdgeBetween]_vars

\* isVisible and setExplored read the tiles, the rooms and the doors, and no
\* entity: a direct call is made on a level populateRoom left without
\* monsters, once
CanCall ==
    /\ pc = "play"
    /\ call = << >>
    /\ MonstersSpawned(entities) = 0

\* a call gameMap.isVisible(from, to) with any two points (map.ts:164-184)
CallIsVisible ==
    /\ CanCall
    /\ \E from \in CallPoints, to \in CallPoints :
          /\ call' = <<"isVisible", from, to>>
          /\ ret' = IF isVisibleThrows(tiles, from) THEN Thrown
                    ELSE isVisible(tiles, rooms, doors, from, to)
    /\ UNCHANGED <<pc, caller, dungeonLevel, tiles, walls, doors, rooms,
                   doorCandidates, idx, entities, nextId, enemyTurns>>

\* a call gameMap.setExplored(at) with any point (map.ts:154-159)
CallSetExplored ==
    /\ CanCall
    /\ \E at \in CallPoints :
          /\ call' = <<"setExplored", at>>
          /\ IF setExploredThrows(tiles, rooms, at)
             THEN /\ ret' = Thrown
                  /\ rooms' = rooms
             ELSE /\ ret' = Undefined
                  /\ rooms' = setExplored(tiles, rooms, at)
    /\ UNCHANGED <<pc, caller, dungeonLevel, tiles, walls, doors,
                   doorCandidates, idx, entities, nextId, enemyTurns>>

\* createGameMap at load, then one direct call of a method of the map
NextCalls ==
    \/ GrowRoom
    \/ BuildWalls
    \/ AddDoor
    \/ PlaceEntities
    \/ PopulateRoom
    \/ CallIsVisible
    \/ CallSetExplored

SpecCalls == Init /\ [][NextCalls]_vars

\* the hp the player can have left when it reaches the stairs: the fights
\* before (takeDamage, simulation.ts:143-153) are not replayed turn by turn
ArrivalHps == { 49, 100 }

\* the game as loaded, the player with one of these hp
InitArrival ==
    /\ pc = "grow"
    /\ caller = "load"
    /\ dungeonLevel = 1
    /\ tiles = EmptyMap
    /\ walls = {}
    /\ doors = [e \in {} |-> Null]
    /\ rooms = [r \in {} |-> Null]
    /\ doorCandidates = << >>
    /\ idx = 0
    /\ \E h \in ArrivalHps : entities = [Entities0 EXCEPT ![PlayerId].hp = h]
    /\ nextId = 3
    /\ enemyTurns = 0
    /\ call = << >>
    /\ ret = Null

\* the levels are built and the player descends where it is placed on the
\* stairs
NextHeal ==
    \/ GrowRoom
    \/ BuildWalls
    \/ AddDoor
    \/ PlaceEntities
    \/ PopulateRoom
    \/ playerGoDownStairs

SpecHeal == InitArrival /\ [][NextHeal]_vars

\* one iteration of the loop of map.ts:292-294 with every value randint can
\* give at this level (map.ts:120, 137); call remembers the room and the two
\* numbers drawn
PopulateRoomDrawn ==
    /\ pc = "populate"
    /\ LET order == Ascending(DOMAIN rooms)
           room == rooms[order[idx]]
       IN  \E numMonsters \in 0..maxMonstersPerRoom(dungeonLevel),
              numItems \in 0..maxItemsPerRoom(dungeonLevel) :
             \E st \in populateRoom([ents |-> entities, nid |-> nextId], room,
                                    dungeonLevel, numMonsters, numItems) :
                /\ nextId' = st.nid
                /\ call' = <<"populateRoom", order[idx], numMonsters, numItems>>
                /\ IF idx = Len(order)
                   THEN LET done == AfterCreate(st.ents, rooms, caller)
                        IN  /\ entities' = done.ents
                            /\ rooms' = done.rms
                            /\ pc' = "play"
                            /\ idx' = 0
                   ELSE /\ entities' = st.ents
                        /\ idx' = idx + 1
                        /\ UNCHANGED <<rooms, pc>>
    /\ UNCHANGED <<caller, dungeonLevel, tiles, walls, doors, doorCandidates,
                   enemyTurns, ret>>

\* createGameMap at load, populateRoom with all its draws
NextPopulate ==
    \/ GrowRoom
    \/ BuildWalls
    \/ AddDoor
    \/ PlaceEntities
    \/ PopulateRoomDrawn

SpecPopulate == Init /\ [][NextPopulate]_vars

\* a function of the simulation is called once on the level as
\* createGameMap left it
CanCallOnce ==
    /\ pc = "play"
    /\ call = << >>
    /\ ~ entities[PlayerId].dead

\* the key of a move (ui.ts:339-347), the call remembered
CallPlayerMoveBy ==
    /\ CanCallOnce
    /\ \E m \in Moves :
          /\ MoveBy(m[1], m[2])
          /\ call' = <<"playerMoveBy", m[1], m[2]>>
    /\ ret' = Undefined

\* the key '>' (ui.ts:349, 391), the call remembered
CallPlayerGoDownStairs ==
    /\ CanCallOnce
    /\ GoDownStairs
    /\ call' = <<"playerGoDownStairs">>
    /\ ret' = Undefined

\* a call castFireball(player, x, y) with any point (simulation.ts:167-187)
CallCastFireball ==
    /\ CanCallOnce
    /\ \E p \in CallPoints :
          LET r == castFireball(tiles, rooms, doors, entities, PlayerId, p)
          IN  /\ call' = <<"castFireball", p>>
              /\ ret' = r.ret
              /\ entities' = r.ents
    /\ UNCHANGED <<pc, caller, dungeonLevel, tiles, walls, doors, rooms,
                   doorCandidates, idx, nextId, enemyTurns>>

\* createGameMap, then one call of a function of the simulation
NextActs ==
    \/ GrowRoom
    \/ BuildWalls
    \/ AddDoor
    \/ PlaceEntities
    \/ PopulateRoom
    \/ CallPlayerMoveBy
    \/ CallPlayerGoDownStairs
    \/ CallCastFireball

SpecActs == Init /\ [][NextActs]_vars

\* a call castConfusion(player, x, y) with any point (simulation.ts:190-204)
CallCastConfusion ==
    /\ CanCallOnce
    /\ \E p \in CallPoints :
          LET r == castConfusion(tiles, rooms, doors, entities, PlayerId, p)
          IN  /\ call' = <<"castConfusion", p>>
              /\ ret' = r.ret
              /\ entities' = r.ents
    /\ UNCHANGED <<pc, caller, dungeonLevel, tiles, walls, doors, rooms,
                   doorCandidates, idx, nextId, enemyTurns>>

\* after a cast that confused a monster the player waits: the key 'z'
\* (ui.ts:347), playerMoveBy(0, 0), and the monster turn it ends with
WaitAfterCast ==
    /\ pc = "play"
    /\ call # << >>
    /\ ret = TRUE
    /\ ~ entities[PlayerId].dead
    /\ enemyTurns < WaitTurns
    /\ MoveBy(0, 0)
    /\ UNCHANGED <<call, ret>>

\* createGameMap, castConfusion once, then the player waits
NextConfused ==
    \/ GrowRoom
    \/ BuildWalls
    \/ AddDoor
    \/ PlaceEntities
    \/ PopulateRoom
    \/ CallCastConfusion
    \/ WaitAfterCast

SpecConfused == Init /\ [][NextConfused]_vars

\* the seed points on the wide map
CorridorSeeds == (0..CorridorWidth) \X (0..CorridorHeight)

\* one iteration of the room loop (map.ts:200-232) on the wide map
GrowWide ==
    /\ pc = "grow"
    /\ idx < CorridorRooms
    /\ \E seed \in CorridorSeeds, size \in RoomSizes(idx) :
          LET g == GrowFromIn(tiles, idx, seed, size, CorridorWidth, CorridorHeight)
          IN  /\ tiles' = g.t
              /\ rooms' = [r \in DOMAIN rooms \cup {idx} |->
                             IF r = idx THEN [NewRoom(seed) EXCEPT !.tiles = g.q]
                             ELSE rooms[r]]
    /\ idx' = idx + 1
    /\ UNCHANGED <<pc, caller, dungeonLevel, walls, doors, doorCandidates,
                   entities, nextId, enemyTurns>>
    /\ UNCHANGED <<call, ret>>

\* the room loop of createGameMap on the wide map
SpecCorridor == Init /\ [][GrowWide]_vars

\* ================================================================ claims
Playing == pc = "play"
Generated == pc \in {"populate", "play"}

RoomTiles(r) == SeqToSet(rooms[r].tiles)

\* every edge slot that touches a tile a room can claim
AllEdges == (0..(WIDTH + 1)) \X (0..(HEIGHT + 1)) \X {"N", "W"}

Sides(e) == { edgeJoins(e)[1], edgeJoins(e)[2] }

\* the rooms on the two sides of a door
DoorRooms(e) == << roomAt(tiles, doors[e].tile1), roomAt(tiles, doors[e].tile2) >>

OrthoNeighbors(p) ==
    { <<p[1] + 1, p[2]>>, <<p[1] - 1, p[2]>>, <<p[1], p[2] + 1>>, <<p[1], p[2] - 1>> }

Sees(from, to) == isVisible(tiles, rooms, doors, from, to)

\* C1: while the door between rooms A and B is closed, no tile of A sees
\* any tile of B, the tile of A next to the door included
C1_ClosedDoorBlocksSight ==
    Playing =>
      \A e \in DOMAIN doors :
         ~ doors[e].open =>
            \A a \in {1, 2} :
               \A from \in RoomTiles(DoorRooms(e)[a]), to \in RoomTiles(DoorRooms(e)[3 - a]) :
                  ~ Sees(from, to)

\* C2: with the door between rooms A and B open, a tile of A sees a tile of
\* B exactly when it is the tile of A next to that door
C2_OpenDoorSightFromDoorway ==
    Playing =>
      \A e \in DOMAIN doors :
         doors[e].open =>
            \A a \in {1, 2} :
               \A from \in RoomTiles(DoorRooms(e)[a]), to \in RoomTiles(DoorRooms(e)[3 - a]) :
                  Sees(from, to) <=> from \in Sides(e)

\* an open door between A and B, A with a tile next to the door, a tile
\* away from it, and a door to a third room
C2_Witness ==
    /\ Playing
    /\ \E e \in DOMAIN doors :
          /\ doors[e].open
          /\ \E a \in {1, 2} :
                LET A == DoorRooms(e)[a]
                    B == DoorRooms(e)[3 - a]
                IN  /\ \E from \in RoomTiles(A) \cap Sides(e), to \in RoomTiles(B) :
                          Sees(from, to)
                    /\ \E from \in RoomTiles(A) \ Sides(e), to \in RoomTiles(B) :
                          ~ Sees(from, to)
                    /\ Len(rooms[A].adjacent) >= 2

\* C3: two tiles with the same room id see each other, whatever the doors
C3_SameRoomVisible ==
    \A p \in DOMAIN tiles, q \in DOMAIN tiles :
       tiles[p] = tiles[q] => Sees(p, q)

\* a room of at least three tiles beside an open door
C3_Witness ==
    /\ Playing
    /\ \E e \in DOMAIN doors :
          /\ doors[e].open
          /\ \E a \in {1, 2} : Cardinality(RoomTiles(DoorRooms(e)[a])) >= 3

\* C4: from a tile A to an orthogonally adjacent tile B canMoveTo is true
\* iff the edge between them holds no wall and no closed door
C4_CanMoveIffOpen ==
    Generated =>
      \A A \in DOMAIN tiles :
         \A B \in OrthoNeighbors(A) :
            LET e == CHOOSE e \in edgesAroundTile(A) : Sides(e) = {A, B}
            IN  canMoveTo(walls, doors, A, B)
                  <=> (e \notin walls /\ (e \in DOMAIN doors => doors[e].open))

\* a map with a wall, a closed door, an open door and an edge with nothing
C4_Witness ==
    /\ Playing
    /\ \E e1 \in DOMAIN doors, e2 \in DOMAIN doors : doors[e1].open /\ ~ doors[e2].open
    /\ \E A \in DOMAIN tiles : \E B \in OrthoNeighbors(A) :
          /\ edgeBetween(A, B) \notin walls \cup DOMAIN doors
          /\ canMoveTo(walls, doors, A, B)
    /\ \E A \in DOMAIN tiles : \E B \in OrthoNeighbors(A) :
          /\ edgeBetween(A, B) \in walls
          /\ B \in DOMAIN tiles
          /\ ~ canMoveTo(walls, doors, A, B)

\* the edge the player faces when moving by m
Facing(m) ==
    edgeBetween(entities[PlayerId].loc,
                <<entities[PlayerId].loc[1] + m[1], entities[PlayerId].loc[2] + m[2]>>)

\* C5: a player move toward a closed door leaves the player where it is,
\* opens exactly that door, changes no other edge, and the monsters take
\* their turn
C5_MoveOntoClosedDoor ==
    [][ \A m \in Moves :
          (playerMoveBy(m[1], m[2]) /\ EdgesGet(walls, doors, Facing(m)) = "closed-door")
          => /\ entities'[PlayerId].loc = entities[PlayerId].loc
             /\ walls' = walls
             /\ DOMAIN doors' = DOMAIN doors
             /\ \A e \in DOMAIN doors :
                   doors'[e] = IF e = Facing(m) THEN [doors[e] EXCEPT !.open = TRUE]
                               ELSE doors[e]
             /\ enemyTurns' = enemyTurns + 1
             /\ entities' \in enemiesMove(tiles, rooms, walls, doors', entities)
      ]_vars

\* after the first turn of a level a door beside the player stands open,
\* another door is still closed, and the player is where it was placed
C5_Witness ==
    /\ Playing
    /\ enemyTurns = 1
    /\ entities[PlayerId].loc = rooms[SetMin(DOMAIN rooms)].center
    /\ \E e1 \in DOMAIN doors, e2 \in DOMAIN doors :
          /\ doors[e1].open
          /\ entities[PlayerId].loc \in Sides(e1)
          /\ ~ doors[e2].open

EdgeState(e) == EdgesGet(walls, doors, e)

\* C6: every door is closed when createGameMap returns; within a level an
\* edge changes only from closed door to open door
C6_DoorsOnlyOpen ==
    [][ /\ (pc = "populate" /\ pc' = "play")
           => \A e \in DOMAIN doors' : ~ doors'[e].open
        /\ (pc = "play" /\ pc' = "play")
           => \A e \in AllEdges :
                 \/ EdgeState(e)' = EdgeState(e)
                 \/ (EdgeState(e) = "closed-door" /\ EdgeState(e)' = "open-door")
      ]_vars

\* on the second level one door has been opened and another is closed
C6_Witness ==
    /\ Playing
    /\ dungeonLevel = 2
    /\ \E e1 \in DOMAIN doors, e2 \in DOMAIN doors : doors[e1].open /\ ~ doors[e2].open

\* C7: after generation a wall or door separates tiles of different rooms
\* (or a room and no room), and an edge with nothing on it that touches a
\* room tile has the same room on both sides
C7_WallsFollowRooms ==
    Generated =>
      \A e \in AllEdges :
         LET r1 == roomAt(tiles, edgeJoins(e)[1])
             r2 == roomAt(tiles, edgeJoins(e)[2])
         IN  /\ (e \in walls \cup DOMAIN doors) => r1 # r2
             /\ (e \notin walls \cup DOMAIN doors /\ (r1 # Null \/ r2 # Null)) => r1 = r2

\* a wall against unallocated space, a wall between two rooms, a door, and
\* an edge inside a room
C7_Witness ==
    /\ Generated
    /\ \E e \in walls : roomAt(tiles, edgeJoins(e)[1]) = Null
                        /\ edgeJoins(e)[1] \in (0..(WIDTH - 1)) \X (0..(HEIGHT - 1))
    /\ \E e \in walls : roomAt(tiles, edgeJoins(e)[1]) # Null
                        /\ roomAt(tiles, edgeJoins(e)[2]) # Null
    /\ DOMAIN doors # {}
    /\ \E e \in AllEdges : /\ e \notin walls \cup DOMAIN doors
                           /\ roomAt(tiles, edgeJoins(e)[1]) # Null
                           /\ roomAt(tiles, edgeJoins(e)[2]) # Null

\* the edges on the boundary between rooms r1 and r2
SharedEdges(r1, r2) ==
    { e \in AllEdges :
        { roomAt(tiles, edgeJoins(e)[1]), roomAt(tiles, edgeJoins(e)[2]) } = {r1, r2} }

\* C8: of the boundary edges two touching rooms share, exactly one is a
\* door and all the others are walls
C8_OneDoorPerPair ==
    Generated =>
      \A r1 \in DOMAIN rooms, r2 \in DOMAIN rooms :
         r1 < r2 =>
            LET shared == SharedEdges(r1, r2)
            IN  shared # {} => /\ Cardinality(shared \cap DOMAIN doors) = 1
                               /\ (shared \ DOMAIN doors) \subseteq walls

\* two rooms that share at least two boundary edges, and a second pair
C8_Witness ==
    /\ Generated
    /\ \E r1 \in DOMAIN rooms, r2 \in DOMAIN rooms :
          r1 < r2 /\ Cardinality(SharedEdges(r1, r2)) >= 2
    /\ Cardinality(DOMAIN doors) >= 2

HasAdjacent(r, other, e) ==
    \E i \in 1..Len(rooms[r].adjacent) :
       rooms[r].adjacent[i] = [roomId |-> other, doorId |-> e]

\* C9: a door separates tiles of two distinct rooms of the room mapping and
\* each of the two lists the other with that edge; every adjacency record
\* names a door between its room and the room it lists
C9_DoorsMatchAdjacency ==
    Generated =>
      /\ \A e \in DOMAIN doors :
            LET R1 == DoorRooms(e)[1]
                R2 == DoorRooms(e)[2]
            IN  /\ { doors[e].tile1, doors[e].tile2 } = Sides(e)
                /\ R1 \in DOMAIN rooms /\ R2 \in DOMAIN rooms /\ R1 # R2
                /\ HasAdjacent(R1, R2, e)
                /\ HasAdjacent(R2, R1, e)
      /\ \A r \in DOMAIN rooms :
            \A i \in 1..Len(rooms[r].adjacent) :
               LET adj == rooms[r].adjacent[i]
               IN  /\ adj.doorId \in DOMAIN doors
                   /\ { roomAt(tiles, edgeJoins(adj.doorId)[1]),
                        roomAt(tiles, edgeJoins(adj.doorId)[2]) } = {r, adj.roomId}

\* a room with doors to two other rooms
C9_Witness ==
    /\ Generated
    /\ \E r \in DOMAIN rooms :
          /\ Len(rooms[r].adjacent) >= 2
          /\ rooms[r].adjacent[1].roomId # rooms[r].adjacent[2].roomId

NoRepeats(q) == \A i \in 1..Len(q), j \in 1..Len(q) : q[i] = q[j] => i = j

\* C10: a step of room growth never changes the room id of a tile that has
\* one; the tile lists hold each tile once, in the list of the room whose
\* id the tile carries
C10_TilesClaimedOnce ==
    [][ /\ dungeonLevel' = dungeonLevel
           => \A p \in DOMAIN tiles : p \in DOMAIN tiles' /\ tiles'[p] = tiles[p]
        /\ \A r \in DOMAIN rooms' :
              /\ NoRepeats(rooms'[r].tiles)
              /\ \A i \in 1..Len(rooms'[r].tiles) : roomAt(tiles', rooms'[r].tiles[i]) = r
      ]_vars

\* all rooms are grown: one seed fell in an earlier room, two rooms hold
\* tiles, and a room stopped at tiles of an earlier room
C10_Witness ==
    /\ pc = "grow"
    /\ idx = NUM_ROOMS
    /\ \E r \in DOMAIN rooms : Len(rooms[r].tiles) = 0
    /\ \E r1 \in DOMAIN rooms, r2 \in DOMAIN rooms :
          /\ r1 < r2
          /\ Len(rooms[r1].tiles) >= 2
          /\ Len(rooms[r2].tiles) >= 1
          /\ \E p \in RoomTiles(r1), q \in RoomTiles(r2) : q \in OrthoNeighbors(p)

\* the room ids the tile map holds
RoomIdsOnTiles(t) == { t[p] : p \in DOMAIN t }

\* C11: a room whose seed is already claimed when its turn comes claims
\* nothing; the pruning keeps exactly the rooms that claimed a tile; from
\* then on every room of the mapping owns its center tile and every room id
\* on a tile is a key of the mapping
C11_RoomsAreTheNonEmpty ==
    [][ /\ (pc = "grow" /\ idx' = idx + 1 /\ TilesHas(tiles, rooms'[idx].center))
           => /\ tiles' = tiles
              /\ rooms'[idx].tiles = << >>
              /\ roomAt(tiles, rooms'[idx].center) < idx
        /\ (pc = "grow" /\ pc' = "doors")
           => /\ DOMAIN rooms = 0..(NUM_ROOMS - 1)
              /\ DOMAIN rooms' = RoomIdsOnTiles(tiles)
              /\ \A r \in DOMAIN rooms :
                    rooms[r].tiles = << >> => r \notin DOMAIN rooms'
              /\ \A r \in DOMAIN rooms' : rooms'[r] = rooms[r]
        /\ pc' \in {"doors", "populate", "play"}
           => /\ RoomIdsOnTiles(tiles') = DOMAIN rooms'
              /\ \A r \in DOMAIN rooms' :
                    /\ Len(rooms'[r].tiles) >= 1
                    /\ roomAt(tiles', rooms'[r].center) = r
      ]_vars

\* the walls are just built: the seed of room 1 fell in room 0, room 1 is
\* gone, rooms 0 and 2 are kept
C11_Witness ==
    /\ pc = "doors"
    /\ idx = 1
    /\ DOMAIN rooms = {0, 2}
    /\ Len(rooms[2].tiles) >= 2

\* the tiles of S joined to a tile of R by orthogonal steps inside S
RECURSIVE Reach4(_, _)
Reach4(S, R) ==
    LET more == { p \in S \ R : \E q \in R : p \in OrthoNeighbors(q) }
    IN  IF more = {} THEN R ELSE Reach4(S, R \cup more)

Connected4(S) == S = {} \/ Reach4(S, { CHOOSE p \in S : TRUE }) = S

\* C12: the tiles of a room form one orthogonally connected set, and each
\* tile of its list after the seed has an orthogonal neighbour earlier in
\* the list (the list is in the order of claiming)
C12_RoomsOrthogonallyConnected ==
    \A r \in DOMAIN rooms :
       /\ Connected4(RoomTiles(r))
       /\ \A i \in 2..Len(rooms[r].tiles) :
             \E j \in 1..(i - 1) : rooms[r].tiles[j] \in OrthoNeighbors(rooms[r].tiles[i])

InBounds(p) == p[1] >= 0 /\ p[1] < WIDTH /\ p[2] >= 0 /\ p[2] < HEIGHT

\* C13: the seed of every room and every tile with a room id lie inside the
\* map: 0 <= x < WIDTH and 0 <= y < HEIGHT
C13_SeedsAndTilesInBounds ==
    /\ \A r \in DOMAIN rooms : InBounds(rooms[r].center)
    /\ \A p \in DOMAIN tiles : InBounds(p)

\* the bounding box of a {w: 10, h: 1} room with the given seed on the wide
\* map, as the room loop computes it
CorridorLeft(seed) == Max(0, seed[1] - 5)
CorridorRight(seed) == Min(CorridorWidth - 1, CorridorLeft(seed) + 9)
CorridorFootprint(seed) ==
    { <<x, y>> : x \in CorridorLeft(seed)..CorridorRight(seed),
                 y \in seed[2]..Min(CorridorHeight - 1, seed[2]) } \cup {seed}

\* C14: a {w: 10, h: 1} room grown where its footprint holds no tile of an
\* earlier room is one unbroken horizontal run of tiles on the row of its
\* seed, the seed included, of 10 tiles unless the 10 columns from its left
\* end do not fit in the map
C14_CorridorIsLine ==
    [][ (pc = "grow" /\ idx' = idx + 1) =>
          LET seed == rooms'[idx].center
              g == GrowFromIn(tiles, idx, seed, <<10, 1>>,
                              CorridorWidth, CorridorHeight)
              line == SeqToSet(rooms'[idx].tiles)
          IN  ( /\ tiles' = g.t
                /\ rooms'[idx].tiles = g.q
                /\ CorridorFootprint(seed) \cap DOMAIN tiles = {} )
              => /\ seed \in line
                 /\ \A p \in line : p[2] = seed[2]
                 /\ \A p \in line, q \in line :
                       \A x \in p[1]..q[1] : <<x, seed[2]>> \in line
                 /\ Cardinality(line) <= 10
                 /\ (CorridorLeft(seed) + 9 <= CorridorWidth - 1)
                       => Cardinality(line) = 10
      ]_vars

\* C15: for two orthogonally adjacent tiles edgeBetween gives, in either
\* order of the arguments, the N edge of the southern tile or the W edge of
\* the eastern tile; for any other pair of points it gives no edge
C15_EdgeBetweenSymmetric ==
    (call # << >> /\ call[1] = "edgeBetween") =>
       LET a == call[2]
           b == call[3]
       IN  IF Abs(a[1] - b[1]) + Abs(a[2] - b[2]) = 1
           THEN /\ ret = edgeBetween(b, a)
                /\ ret = IF a[1] = b[1]
                         THEN <<a[1], Max(a[2], b[2]), "N">>
                         ELSE <<Max(a[1], b[1]), a[2], "W">>
           ELSE ret = NoEdge

\* edgeBetween was called with the southern tile first and answered with
\* that tile's N edge
C15_Witness ==
    /\ call = <<"edgeBetween", <<1, 1>>, <<1, 0>> >>
    /\ ret = <<1, 1, "N">>

\* the tiles isExplored answers true for
ExploredTiles(t, rms) == { p \in DOMAIN t : isExplored(t, rms, p) }

\* the room the player stands in
PlayerRoom(t, ents) == roomAt(t, ents[PlayerId].loc)

\* C16: when createGameMap has returned and the map is drawn, the explored
\* tiles are the tiles of the player's room; a player turn on that level
\* (a move, a door opening, the monsters' turn) keeps every explored tile
\* explored and adds exactly the tiles of the room the player stands in
C16_ExploredIsPermanent ==
    [][ /\ (pc = "populate" /\ pc' = "play")
           => /\ PlayerRoom(tiles', entities') \in DOMAIN rooms'
              /\ ExploredTiles(tiles', rooms') =
                    SeqToSet(rooms'[PlayerRoom(tiles', entities')].tiles)
        /\ (pc = "play" /\ pc' = "play")
           => /\ tiles' = tiles
              /\ PlayerRoom(tiles', entities') \in DOMAIN rooms'
              /\ ExploredTiles(tiles', rooms') =
                    ExploredTiles(tiles, rooms)
                      \cup SeqToSet(rooms'[PlayerRoom(tiles', entities')].tiles)
      ]_vars

\* the player has gone through a door: the room it started in and the room
\* it stands in are explored, a third room is not
C16_Witness ==
    /\ Playing
    /\ PlayerRoom(tiles, entities) # SetMin(DOMAIN rooms)
    /\ rooms[SetMin(DOMAIN rooms)].explored
    /\ rooms[PlayerRoom(tiles, entities)].explored
    /\ \E r \in DOMAIN rooms : ~ rooms[r].explored

NotARoomTile(p) == roomAt(tiles, p) \notin DOMAIN rooms

\* C17: isVisible with a from point that is a tile of no room, and
\* setExplored with such a point, end by throwing and leave the explored
\* flag of every room as it was
C17_CallsOutsideRoomsThrow ==
    [][ (call' # call /\ call'[1] \in {"isVisible", "setExplored"}
           /\ NotARoomTile(call'[2]))
        => /\ ret' = Thrown
           /\ DOMAIN rooms' = DOMAIN rooms
           /\ \A r \in DOMAIN rooms : rooms'[r].explored = rooms[r].explored
      ]_vars

\* isVisible was called from a point inside the map that no room claimed,
\* toward a tile of the player's room, and threw
C17_Witness ==
    /\ call # << >>
    /\ call[1] = "isVisible"
    /\ InBounds(call[2])
    /\ NotARoomTile(call[2])
    /\ roomAt(tiles, call[3]) = PlayerRoom(tiles, entities)
    /\ ret = Thrown

\* C18: the step that descends is taken on a stairs entity, raises
\* dungeonLevel by exactly 1 and leaves in the store no entity that was on
\* the map except the player; ids are never given out twice, so none of
\* the deleted entities comes back while the new level is built
C18_DescendClearsOldMap ==
    [][ /\ dungeonLevel' # dungeonLevel
           => /\ \E id \in allAt(entities, entities[PlayerId].loc) :
                    entities[id].type = "stairs"
              /\ dungeonLevel' = dungeonLevel + 1
              /\ PlayerId \in DOMAIN entities'
              /\ \A id \in onMap(entities) \ {PlayerId} : id \notin DOMAIN entities'
        /\ \A id \in DOMAIN entities : id <= nextId
        /\ \A id \in DOMAIN entities' \ DOMAIN entities : id > nextId
      ]_vars

\* the player has just descended from a level with stairs and a monster:
\* the store holds the player and its two equipped items only
C18_Witness ==
    /\ dungeonLevel = 2
    /\ pc = "grow"
    /\ idx = 0
    /\ nextId = 5
    /\ DOMAIN entities = {1, 2, 3}

StairsIds(ents) == { id \in DOMAIN ents : ents[id].type = "stairs" }

\* the kept room ids below r, and above r
KeptBefore(r) == { q \in DOMAIN rooms : q < r }
KeptAfter(r) == { q \in DOMAIN rooms : q > r }

\* C19: in the state createGameMap returns in (no turn has passed on the
\* level) the player is on the center tile of the kept room with no kept
\* room before it, and the store holds exactly one stairs entity, on the
\* center tile of the kept room with no kept room after it
C19_PlayerFirstStairsLast ==
    (Playing /\ enemyTurns = 0) =>
       /\ \E r \in DOMAIN rooms :
             /\ KeptBefore(r) = {}
             /\ entities[PlayerId].loc = rooms[r].center
       /\ Cardinality(StairsIds(entities)) = 1
       /\ \E r \in DOMAIN rooms :
             /\ KeptAfter(r) = {}
             /\ \A id \in StairsIds(entities) : entities[id].loc = rooms[r].center

\* the second level is built: rooms 0 and 1 are kept, room 2 is not, and
\* the player and the stairs are on different tiles
C19_Witness ==
    /\ Playing
    /\ enemyTurns = 0
    /\ dungeonLevel = 2
    /\ DOMAIN rooms = {0, 1}
    /\ entities[PlayerId].loc = rooms[0].center
    /\ \E id \in StairsIds(entities) : entities[id].loc = rooms[1].center
    /\ rooms[0].center # rooms[1].center

\* C20: from the descent to the end of the construction of the new level
\* the player's hp stays what it was; the heal that ends the descent then
\* leaves min(hp + floor(effective_max_hp / 2), effective_max_hp), which is
\* at most effective_max_hp
C20_DescendHeals ==
    [][ /\ pc' # "play" => entities'[PlayerId].hp = entities[PlayerId].hp
        /\ (pc = "populate" /\ pc' = "play" /\ caller = "stairs")
           => LET hp == entities[PlayerId].hp
                  max_hp == effective_max_hp(entities, PlayerId)
              IN  /\ entities'[PlayerId].hp = Min(hp + (max_hp \div 2), max_hp)
                  /\ entities'[PlayerId].hp <= effective_max_hp(entities', PlayerId)
      ]_vars

\* the player came down with 49 hp and has 99 of 100 on the second level
C20_Witness ==
    /\ Playing
    /\ dungeonLevel = 2
    /\ entities[PlayerId].hp = 99
    /\ effective_max_hp(entities, PlayerId) = 100

\* the entities a step has created
Created == DOMAIN entities' \ DOMAIN entities
CreatedMonsters == { id \in Created : entities'[id].base_max_hp # Null }
CreatedItems == { id \in Created : entities'[id].base_max_hp = Null }

\* C22: a call of populateRoom creates at most numMonsters monsters and at
\* most numItems items, all on tiles of its room; a monster it creates shares
\* its tile with no other blocking entity and an item it creates is the only
\* entity on its tile, so a draw that lands on an occupied tile creates
\* nothing and is not made again
C22_PopulateNeverRetries ==
    [][ (pc = "populate" /\ idx' # idx)
        => LET room == call'[2]
               numMonsters == call'[3]
               numItems == call'[4]
           IN  /\ Cardinality(CreatedMonsters) <= numMonsters
               /\ Cardinality(CreatedItems) <= numItems
               /\ Created = (nextId + 1)..nextId'
               /\ \A id \in Created : entities'[id].loc \in RoomTiles(room)
               /\ \A id \in CreatedMonsters :
                     { o \in allAt(entities', entities'[id].loc) :
                         Blocks(entities'[o].type) } = {id}
               /\ \A id \in CreatedItems :
                     allAt(entities', entities'[id].loc) = {id}
               /\ \A id \in DOMAIN entities :
                     entities'[id].loc = entities[id].loc ]_vars

\* a room of one tile took two monster draws and an item draw: the first
\* created a monster, the two others landed on it and created nothing
C22_Witness ==
    /\ Len(call) = 4
    /\ call[1] = "populateRoom"
    /\ call[3] = 2
    /\ call[4] = 1
    /\ Cardinality({ id \in onMap(entities) :
                       /\ entities[id].loc \in RoomTiles(call[2])
                       /\ entities[id].type \in {"orc", "troll"} }) = 1
    /\ ~ \E id \in onMap(entities) :
            /\ entities[id].loc \in RoomTiles(call[2])
            /\ entities[id].type \notin {"orc", "troll", "player", "stairs"}

OccupiedTiles == { entities[id].loc : id \in onMap(entities) }

\* C24: whatever the player's moves, the doors opened, the monster turns and
\* the descents, no tile holds two blocking entities (player, orc, troll), so
\* no call of blockingEntityAt throws
C24_OneBlockerPerTile ==
    \A p \in OccupiedTiles : ~ BlockingThrows(entities, p)

\* on the second level a monster stands next to the player with nothing
\* between them and has hit it in its turn instead of stepping onto its tile
C24_Witness ==
    /\ Playing
    /\ dungeonLevel = 2
    /\ enemyTurns >= 1
    /\ entities[PlayerId].hp < effective_max_hp(entities, PlayerId)
    /\ \E id \in onMap(entities) :
          /\ entities[id].ai = "move_to_player"
          /\ entities[id].loc \in OrthoNeighbors(entities[PlayerId].loc)
          /\ canMoveTo(walls, doors, entities[id].loc, entities[PlayerId].loc)

\* the player and the living monsters
Standing == {PlayerId} \cup { id \in onMap(entities) : entities[id].ai # "none" }

\* C25: when the game waits for a key, whatever the moves, the doors opened,
\* the monster turns and the descents before, the player and every living
\* monster stand on a tile of a room of the current map, so neither
\* setExplored(player.location) nor isVisible(player.location, .) throws
C25_EveryoneInARoom ==
    Playing
    => /\ \A id \in Standing : roomAt(tiles, entities[id].loc) \in DOMAIN rooms
       /\ ~ setExploredThrows(tiles, rooms, entities[PlayerId].loc)
       /\ ~ isVisibleThrows(tiles, entities[PlayerId].loc)

\* on the second level, after MaxTurns turns, the player has left the tile
\* it was put on and a living monster stands next to it
C25_Witness ==
    /\ Playing
    /\ dungeonLevel = 2
    /\ enemyTurns = MaxTurns
    /\ entities[PlayerId].loc # FirstRoom(rooms).center
    /\ \E id \in Standing \ {PlayerId} :
          entities[id].loc \in OrthoNeighbors(entities[PlayerId].loc)

\* the monsters that are after the player before a step
Chasers == { id \in onMap(entities) : entities[id].ai = "move_to_player" }

\* the chasers the player does not see from where it stands after its move,
\* which is when enemiesMove looks
Unseen ==
    { id \in Chasers :
        ~ isVisible(tiles, rooms, doors', entities'[PlayerId].loc, entities[id].loc) }

\* the edge the player faces when it moves by m
FacedEdge(m) ==
    edgeBetween(entities[PlayerId].loc,
                <<entities[PlayerId].loc[1] + m[1], entities[PlayerId].loc[2] + m[2]>>)

\* C26: in a turn a 'move_to_player' monster the player does not see keeps
\* its position, and when the player sees none of them the player loses no
\* hp; the walls never change and the only door that changes is the closed
\* door the player walks into, so no monster changes an edge
C26_UnseenMonstersStay ==
    [][ Playing
        => /\ \A id \in Unseen : entities'[id].loc = entities[id].loc
           /\ (Unseen = Chasers) => entities'[PlayerId].hp = entities[PlayerId].hp
           /\ walls' = walls
           /\ \/ doors' = doors
              \/ \E m \in Moves :
                    /\ EdgesGet(walls, doors, FacedEdge(m)) = "closed-door"
                    /\ doors' = EdgesSetOpen(doors, FacedEdge(m)) ]_vars

\* a monster turn has run while a monster that is after the player stood in
\* a room the player does not see, with room to move
C26_Witness ==
    /\ Playing
    /\ enemyTurns >= 1
    /\ \E id \in onMap(entities) :
          /\ entities[id].ai = "move_to_player"
          /\ ~ isVisible(tiles, rooms, doors, entities[PlayerId].loc, entities[id].loc)
          /\ \E p \in OrthoNeighbors(entities[id].loc) :
                canMoveTo(walls, doors, entities[id].loc, p)

\* C27: playerMoveBy toward an orthogonally adjacent tile across a wall
\* changes nothing: the player stays, every edge keeps its state, every
\* monster keeps its position and hp, and no monster turn runs
C27_MoveIntoWallChangesNothing ==
    [][ (pc = "play" /\ call' # call /\ call'[1] = "playerMoveBy"
           /\ <<call'[2], call'[3]>> # <<0, 0>>
           /\ EdgesGet(walls, doors, FacedEdge(<<call'[2], call'[3]>>)) = "wall")
        => /\ entities' = entities
           /\ walls' = walls
           /\ doors' = doors
           /\ enemyTurns' = enemyTurns
           /\ tiles' = tiles ]_vars

\* the player has walked into a wall while a monster that sees it stood on
\* the map
C27_Witness ==
    /\ Len(call) = 3
    /\ call[1] = "playerMoveBy"
    /\ <<call[2], call[3]>> # <<0, 0>>
    /\ EdgesGet(walls, doors, FacedEdge(<<call[2], call[3]>>)) = "wall"
    /\ \E id \in onMap(entities) :
          /\ entities[id].ai = "move_to_player"
          /\ MonsterSees(tiles, rooms, doors, entities, id)

\* C28: playerGoDownStairs with no stairs on the player's tile changes
\* nothing: no entity is deleted or altered (the player's hp included), the
\* map is the same and dungeonLevel is the same
C28_NoStairsNoDescent ==
    [][ (pc = "play" /\ call' # call /\ call'[1] = "playerGoDownStairs"
           /\ ~ OnStairs)
        => /\ entities' = entities
           /\ dungeonLevel' = dungeonLevel
           /\ tiles' = tiles
           /\ walls' = walls
           /\ doors' = doors
           /\ rooms' = rooms
           /\ pc' = "play" ]_vars

\* the key was pressed on the first level away from the stairs, with a monster
\* on the map: the level is still the first and the monster is still there
C28_Witness ==
    /\ call = <<"playerGoDownStairs">>
    /\ Playing
    /\ dungeonLevel = 1
    /\ ~ OnStairs
    /\ StairsIds(entities) # {}
    /\ \E id \in onMap(entities) : entities[id].ai = "move_to_player"

\* C29: castFireball(caster, x, y) aimed at a tile of a room returns false
\* and damages nothing when the caster does not see the tile; when the
\* caster sees it, it returns true and takes 25 hp from every living entity
\* within distance 3 of the tile that is seen both from the tile and from
\* the caster, and from no other
C29_FireballNeedsSight ==
    [][ (pc = "play" /\ call' # call /\ call'[1] = "castFireball"
           /\ TilesHas(tiles, call'[2]))
        => LET p == call'[2]
               from == entities[PlayerId].loc
           IN  IF ~ isVisible(tiles, rooms, doors, from, p)
               THEN /\ ret' = FALSE
                    /\ entities' = entities
               ELSE /\ ret' = TRUE
                    /\ \A id \in Living(entities) :
                          entities'[id].hp =
                             IF /\ WithinDistance(entities[id].loc, p, FireballRange)
                                /\ isVisible(tiles, rooms, doors, p, entities[id].loc)
                                /\ isVisible(tiles, rooms, doors, from, entities[id].loc)
                             THEN entities[id].hp - FireballDamage
                             ELSE entities[id].hp ]_vars

\* the monsters that are confused before a step
ConfusedNow == { id \in onMap(entities) : entities[id].ai = "confused" }

\* C30: a monster castConfusion has confused is confused with 10 turns
\* left, loses one at every monster turn and is 'move_to_player' again at
\* the tenth, so it never stays confused; in a turn in which it is confused
\* it stays or steps to an orthogonally adjacent tile that canMoveTo allows
\* and that holds no blocking entity
C30_ConfusionWearsOff ==
    [][ Playing
        => /\ \A id \in onMap(entities') :
                 entities'[id].ai = "confused"
                 => /\ entities'[id].turns \in 1..ConfusionTurns
                    /\ entities'[id].turns = ConfusionTurns - enemyTurns'
           /\ (enemyTurns' = enemyTurns + 1)
              => \A id \in ConfusedNow :
                    IF entities[id].turns > 1
                    THEN /\ entities'[id].ai = "confused"
                         /\ entities'[id].turns = entities[id].turns - 1
                         /\ \/ entities'[id].loc = entities[id].loc
                            \/ /\ entities'[id].loc \in OrthoNeighbors(entities[id].loc)
                               /\ canMoveTo(walls, doors, entities[id].loc,
                                            entities'[id].loc)
                               /\ blockingEntityAt(entities, entities'[id].loc) = Null
                    ELSE /\ entities'[id].ai = "move_to_player"
                         /\ entities'[id].loc = entities[id].loc ]_vars

\* ten monster turns after the cast the monster is alive, away from the
\* tile it was confused on, and after the player again
C30_Witness ==
    /\ Len(call) = 2
    /\ call[1] = "castConfusion"
    /\ ret = TRUE
    /\ enemyTurns = ConfusionTurns
    /\ \E id \in onMap(entities) :
          /\ entities[id].ai = "move_to_player"
          /\ entities[id].loc # call[2]

====
